---- MODULE Spec2Model ----
(***************************************************************************)
(* Model of the OpenIFEM hyperelastic solid solver                         *)
(* (src/hyperelasticSolver.cpp) and of the FSI coupling coordinator        *)
(* (src/source/fsi.cpp).                                                   *)
(*                                                                         *)
(* Numbers.  Norms, loads and displacements are exact integers on a small  *)
(* lattice; a normalised norm is the pair (num, den) of the IEEE division  *)
(* num/den, where den = 0 stands for the NaN or the infinity the division  *)
(* produces, and every comparison with such a value is false.              *)
(*                                                                         *)
(* Geometry.  The meshes are the one-dimensional analogue of the code's    *)
(* dim = 2, 3 meshes: a cell has two vertices and two faces, neighbouring  *)
(* cells share a vertex, and there is one displacement dof per vertex.     *)
(***************************************************************************)
EXTENDS Integers, Sequences, FiniteSets, TLC

VARIABLES
  \* ---- HyperelasticSolver ----
  params,              \* Parameters::AllParameters of the solid solver
  nr_pc,               \* position in runStatics / solveNonlinearTimestep
  timestep,            \* time.get_timestep()
  load,                \* external load of the current time step
  solution,            \* HyperelasticSolver::solution
  solution_delta,      \* the running displacement increment
  qph_u,               \* total displacement last passed to updateGlobalQPH
  newton_iteration,
  errorResidual, errorResidual0, errorResidualNorm,
  errorUpdate, errorUpdate0, errorUpdateNorm,
  \* ---- PointHistory ----
  debug_build,         \* TRUE when deal.II's Assert macro is compiled in
  ph_params,           \* the material part of Parameters::AllParameters
  ph_pc,               \* "new", "ready" (setup returned), "aborted", "crashed"
  material,            \* the object this->material points to
  hist,                \* FInv, tau, Jc, dPsi_vol_dJ, d2Psi_vol_dJ2
  last_grad,           \* Grad_u of the last call of update, -1 before it
  prev_grad,           \* Grad_u of the call before the last one
  ph_calls,            \* calls of update made after setup
  \* ---- FSI coordinator, solid solver and fluid solver as it sees them ----
  fsi_params,          \* end_time, time_step, refinement_interval
  fsi_pc,              \* position in FSI::run
  last_op,             \* the operation that ran last
  first_step,          \* the local of FSI::run
  fsi_time,            \* time.current() and time.get_timestep()
  solid_vertex,        \* coordinates of the solid triangulation's vertices
  solid,               \* current_displacement, current_acceleration, stress
  solid_steps,         \* calls of solid_solver.run_one_step
  fsi_traction,        \* solid cell_property: traction per cell and face
  fluid,               \* fluid_solver.present_solution
  fluid_steps,         \* calls of fluid_solver.run_one_step
  fluid_active,        \* active cells of the fluid triangulation
  fluid_data,          \* fluid cell_property: per cell and quadrature point
  \* ---- move_solid_mesh called on its own ----
  mv_orig,             \* vertex coordinates before the first call
  mv_calls,            \* calls so far
  mv_depth,            \* forward calls minus backward calls so far
  \* ---- updateGlobalQPH run by WorkStream ----
  ws_pc,               \* "idle" or "running"
  ws_passes,           \* calls of updateGlobalQPH so far
  solution_total,      \* the local of updateGlobalQPH, per solid vertex
  ws_pending,          \* cells WorkStream has not handed out yet
  ws_task,             \* per worker: its position, its cell and its scratch
  qph,                 \* quadraturePointHistory: per cell and point
  qph_touched,         \* per cell and point: the tasks that accessed it
  ws_log               \* the cells in the order their tasks finished

nrVars == <<params, nr_pc, timestep, load, solution, solution_delta, qph_u,
            newton_iteration, errorResidual, errorResidual0,
            errorResidualNorm, errorUpdate, errorUpdate0, errorUpdateNorm>>

phVars == <<debug_build, ph_params, ph_pc, material, hist, last_grad,
            prev_grad, ph_calls>>

fsiVars == <<fsi_params, fsi_pc, last_op, first_step, fsi_time, solid_vertex, solid,
             solid_steps, fsi_traction, fluid, fluid_steps, fluid_active,
             fluid_data>>

mvVars == <<mv_orig, mv_calls, mv_depth>>

wsVars == <<ws_pc, ws_passes, solution_total, ws_pending, ws_task, qph,
            qph_touched, ws_log>>

vars == <<nrVars, phVars, fsiVars, mvVars, wsVars>>

otherNR == <<phVars, fsiVars, mvVars, wsVars>>
otherPH == <<nrVars, fsiVars, mvVars, wsVars>>
otherFSI == <<nrVars, phVars, mvVars, wsVars>>
otherWS == <<nrVars, phVars, fsiVars, mvVars>>
otherMV == <<nrVars, phVars, wsVars, fsi_params, fsi_pc, last_op, first_step, fsi_time,
            solid_steps, fsi_traction, fluid, fluid_steps, fluid_active,
            fluid_data>>

\* ------------------------------------------------------------------------
\* Bounds
\* ------------------------------------------------------------------------
MaxIterNR == 3       \* largest configured max_iterations_NR
MaxLoad   == 2       \* largest external load
MaxDisp   == 2       \* largest |total displacement|
MaxSteps  == 2       \* time steps run by runStatics
MaxMu     == 2       \* largest shear modulus in a configuration
MaxGrad   == 2       \* largest displacement gradient passed to update
MaxUpdates == 2      \* calls of PointHistory::update after setup
MaxPasses == 2       \* calls of updateGlobalQPH
MaxCalls  == 3       \* calls of move_solid_mesh made on its own
MaxEnd    == 3       \* largest configured end time, in ticks

Abs(x) == IF x < 0 THEN -x ELSE x

\* ------------------------------------------------------------------------
\* Error trackers
\* ------------------------------------------------------------------------
Ratio(n, d) == [num |-> n, den |-> d]

\* Errors::reset()
ErrorsReset == Ratio(1, 1)

\* Errors::normalize(rhs): norm /= rhs.norm, a plain division
Normalize(e, e0) == Ratio(e, e0)

\* a <= tol on doubles: false when a is a NaN or an infinity
LeTol(a, tol) == a.den # 0 /\ a.num * tol.den <= tol.num * a.den

TolSet == {Ratio(0, 1), Ratio(1, 2), Ratio(1, 1)}

ParamSet == [max_iterations_NR : 1..MaxIterNR, tol_u : TolSet, tol_f : TolSet]

\* ------------------------------------------------------------------------
\* Meshes
\* ------------------------------------------------------------------------
\* The solid mesh: two cells in a row; vertex 2 is shared.  A cell is the
\* pair of its vertex indices, and its face f is its vertex f.
SolidVertices == 1..3
SolidCells == <<(<<1, 2>>), (<<2, 3>>)>>
SolidCellIds == 1..Len(SolidCells)
VerticesPerCell == 1..2
FacesPerCell == 1..2

\* reference coordinates of the solid vertices
RefPos == <<8, 16, 24>>

\* cell->face(f)->at_boundary(): no other cell has this face
AtBoundary(c, f) ==
  \A d \in SolidCellIds :
    d # c => \A g \in FacesPerCell : SolidCells[d][g] # SolidCells[c][f]

\* boundary faces on which the solid solver imposes a Dirichlet condition
DirichletVertices == {1}
HasDirichlet(c, f) == AtBoundary(c, f) /\ SolidCells[c][f] \in DirichletVertices

\* outward normal of face f
Normal(f) == IF f = 1 THEN -1 ELSE 1

\* The fluid mesh: the coarse cell [0, 32] and its binary refinements; the
\* cell <<l, i>> is the i-th cell of level l.
DomainWidth == 32
Pow2(l) == IF l = 0 THEN 1 ELSE IF l = 1 THEN 2 ELSE IF l = 2 THEN 4 ELSE 8
MeshLevels == 0..3
AllFluidCells == {<<l, i>> : l \in MeshLevels, i \in 0..7} \cap
                 UNION {{<<l, i>> : i \in 0..(Pow2(l) - 1)} : l \in MeshLevels}
Width(cell) == DomainWidth \div Pow2(cell[1])
Left(cell) == cell[2] * Width(cell)
Right(cell) == Left(cell) + Width(cell)
Center(cell) == Left(cell) + Width(cell) \div 2
FluidVertex(cell, v) == IF v = 1 THEN Left(cell) ELSE Right(cell)
QPoints == 1..2
QuadraturePoint(cell, q) ==
  IF q = 1 THEN Left(cell) + Width(cell) \div 4
  ELSE Left(cell) + 3 * (Width(cell) \div 4)
Children(cell) == {<<cell[1] + 1, 2 * cell[2]>>, <<cell[1] + 1, 2 * cell[2] + 1>>}
Parent(cell) == <<cell[1] - 1, cell[2] \div 2>>

\* triangulation.refine_global(n) of the coarse mesh
RefineGlobal(n) == {cell \in AllFluidCells : cell[1] = n}

\* ------------------------------------------------------------------------
\* FSI::move_solid_mesh and FSI::point_in_mesh
\* ------------------------------------------------------------------------
\* the (cell, vertex) pairs in the order of the two nested loops
Visits == <<(<<1, 1>>), (<<1, 2>>), (<<2, 1>>), (<<2, 2>>)>>

RECURSIVE MoveLoop_NoTouched(_, _, _, _, _)
MoveLoop_NoTouched(k, verts, touched, disp, forward) ==
  IF k > Len(Visits) THEN verts
  ELSE LET vi == SolidCells[Visits[k][1]][Visits[k][2]]
           d  == IF forward THEN disp[vi] ELSE -disp[vi]
       IN MoveLoop_NoTouched(k + 1, [verts EXCEPT ![vi] = @ + d],
                             touched, disp, forward)

\* the loops of lines 25-50, from the k-th visit on
RECURSIVE MoveLoop(_, _, _, _, _)
MoveLoop(k, verts, touched, disp, forward) ==
  IF k > Len(Visits) THEN verts
  ELSE LET vi == SolidCells[Visits[k][1]][Visits[k][2]]
           d  == IF forward THEN disp[vi] ELSE -disp[vi]
       IN IF vi \in touched
          THEN MoveLoop(k + 1, verts, touched, disp, forward)
          ELSE MoveLoop(k + 1, [verts EXCEPT ![vi] = @ + d],
                        touched \cup {vi}, disp, forward)

move_solid_mesh(verts, disp, move_forward) ==
  MoveLoop(1, verts, {}, disp, move_forward)

Min2(a, b) == IF a < b THEN a ELSE b
Max2(a, b) == IF a < b THEN b ELSE a

\* cell->point_inside(point) for the solid cell c with vertices at verts
PointInside(verts, c, x) ==
  /\ Min2(verts[SolidCells[c][1]], verts[SolidCells[c][2]]) <= x
  /\ x <= Max2(verts[SolidCells[c][1]], verts[SolidCells[c][2]])

RECURSIVE PointInMeshFrom(_, _, _)
PointInMeshFrom(c, verts, x) ==
  IF c > Len(SolidCells) THEN FALSE
  ELSE IF PointInside(verts, c, x) THEN TRUE
  ELSE PointInMeshFrom(c + 1, verts, x)

\* lines 54-64: scan the active cells, stop at the first that holds the point
point_in_mesh(verts, x) == PointInMeshFrom(1, verts, x)

\* ------------------------------------------------------------------------
\* move_solid_mesh called on its own, for a fixed displacement field
\* ------------------------------------------------------------------------
DispValues == {-4, 0, 4}

ZeroSolid == [disp |-> <<0, 0, 0>>, acc |-> 0, stress |-> <<0, 0>>]

MVInit ==
  /\ solid \in {[ZeroSolid EXCEPT !.disp = d] : d \in [SolidVertices -> DispValues]}
  /\ solid_vertex = RefPos
  /\ mv_orig = RefPos
  /\ mv_calls = 0
  /\ mv_depth = 0

MVFixed ==
  /\ mv_orig = RefPos
  /\ mv_calls = 0
  /\ mv_depth = 0

MoveForward ==
  /\ mv_calls < MaxCalls
  /\ mv_calls' = mv_calls + 1
  /\ solid_vertex' = move_solid_mesh(solid_vertex, solid.disp, TRUE)
  /\ mv_depth' = mv_depth + 1
  /\ UNCHANGED <<mv_orig, solid>>
  /\ UNCHANGED otherMV

MoveBackward ==
  /\ mv_calls < MaxCalls
  /\ mv_calls' = mv_calls + 1
  /\ solid_vertex' = move_solid_mesh(solid_vertex, solid.disp, FALSE)
  /\ mv_depth' = mv_depth - 1
  /\ UNCHANGED <<mv_orig, solid>>
  /\ UNCHANGED otherMV

MVNext == MoveForward \/ MoveBackward

\* C5: every call of move_solid_mesh shifts every vertex exactly once by its
\* own displacement, shared vertices included, so a forward call followed by
\* a backward call puts every vertex back where it was.
C5_MoveRoundTrip ==
  /\ [](\A v \in SolidVertices :
          solid_vertex[v] = mv_orig[v] + mv_depth * solid.disp[v])
  /\ [](mv_depth = 0 => solid_vertex = mv_orig)

C5_Witness ==
  /\ mv_calls = 2
  /\ mv_depth = 0
  /\ \A v \in SolidVertices : solid.disp[v] # 0
  /\ solid_vertex = mv_orig

\* ------------------------------------------------------------------------
\* The solvers as the coordinator sees them
\* ------------------------------------------------------------------------
\* parameters.gravity, parameters.viscosity, parameters.global_refinements[0]
Physics == [gravity |-> 1, viscosity |-> 2, global_refinements |-> 1]

\* states solid_solver.run_one_step may leave: the displacement of the
\* Dirichlet vertex stays zero and no cell is inverted
SolidStates ==
  { ZeroSolid,
    [disp |-> <<0, -4, 0>>, acc |-> 1, stress |-> <<1, 0>>],
    [disp |-> <<0, 0, 8>>,  acc |-> 0, stress |-> <<0, 3>>],
    [disp |-> <<0, 4, 4>>,  acc |-> 2, stress |-> <<1, 1>>] }

\* states fluid_solver.run_one_step may leave: velocity and pressure take
\* one value left of the middle of the fluid domain and one right of it;
\* grad is the velocity gradient
ZeroFluid == [velL |-> 0, velR |-> 0, grad |-> 0, presL |-> 0, presR |-> 0]
FluidStates ==
  { ZeroFluid,
    [velL |-> 4,  velR |-> 4, grad |-> 0, presL |-> 1, presR |-> 2],
    [velL |-> -4, velR |-> 4, grad |-> 1, presL |-> 3, presR |-> 0] }

FluidVelocity(fl, x) == IF 2 * x < DomainWidth THEN fl.velL ELSE fl.velR
FluidGradient(fl, x) == fl.grad
FluidPressure(fl, x) == IF 2 * x < DomainWidth THEN fl.presL ELSE fl.presR

\* VectorTools::point_value on a solid field at a point of the moved mesh:
\* the value in the first cell that holds the point
RECURSIVE SolidCellAt(_, _, _)
SolidCellAt(c, verts, x) ==
  IF c > Len(SolidCells) THEN 0
  ELSE IF PointInside(verts, c, x) THEN c
  ELSE SolidCellAt(c + 1, verts, x)
SolidStress(sl, verts, x) == sl.stress[SolidCellAt(1, verts, x)]

\* VectorTools::point_value throws when no cell of the mesh holds the point
PointValueThrows(verts, x) == SolidCellAt(1, verts, x) = 0
SolidAcceleration(sl, verts, x) == sl.acc

\* the coupling data of one fluid quadrature point
QData(ind, a, s) == [indicator |-> ind, fsi_acceleration |-> a, fsi_stress |-> s]
NoData == [cell \in AllFluidCells |-> [q \in QPoints |-> QData(FALSE, 0, 0)]]
NoTraction == [c \in SolidCellIds |-> [f \in FacesPerCell |-> 0]]

\* ------------------------------------------------------------------------
\* FSI::update_indicator, find_fluid_bc, find_solid_bc, update_solid_displacement
\* ------------------------------------------------------------------------
IsSolidFrom_AnyVertex(v, verts, cell) ==
  \E w \in v..2 : point_in_mesh(verts, FluidVertex(cell, w))

\* lines 117-126: the loop over the vertices of a fluid cell, with its break
RECURSIVE IsSolidFrom(_, _, _)
IsSolidFrom(v, verts, cell) ==
  IF v > 2 THEN TRUE
  ELSE IF ~point_in_mesh(verts, FluidVertex(cell, v)) THEN FALSE
  ELSE IsSolidFrom(v + 1, verts, cell)

\* lines 111-131, on the moved mesh
IndicatorPass(verts, active, data) ==
  [cell \in AllFluidCells |->
     IF cell \in active
     THEN [q \in QPoints |->
             [data[cell][q] EXCEPT !.indicator = IsSolidFrom(1, verts, cell)]]
     ELSE data[cell]]

QDataAt_Stale(verts, sl, fl, cell, q, old) ==
  LET x == QuadraturePoint(cell, q)
      ind == point_in_mesh(verts, x)
  IN IF ~ind THEN [old EXCEPT !.indicator = FALSE]
     ELSE QData(TRUE,
                Physics.gravity - SolidAcceleration(sl, verts, x),
                -FluidPressure(fl, x) + Physics.viscosity * FluidGradient(fl, x)
                  - SolidStress(sl, verts, x))

Continues_Never(ind) == FALSE

\* lines 179-180: `if (ptr[q]->indicator == 0) continue;`
Continues(ind) == ~ind

\* lines 175-211: the body of the loop over the quadrature points
QDataAt(verts, sl, fl, cell, q, old) ==
  LET x == QuadraturePoint(cell, q)
      ind == point_in_mesh(verts, x)
  IN IF Continues(ind) THEN QData(FALSE, 0, 0)
     ELSE QData(TRUE,
                Physics.gravity - SolidAcceleration(sl, verts, x),
                -FluidPressure(fl, x) + Physics.viscosity * FluidGradient(fl, x)
                  - SolidStress(sl, verts, x))

\* lines 185-205: a point_value call of the pass throws
FluidBcThrows(verts, active) ==
  \E cell \in active : \E q \in QPoints :
    LET x == QuadraturePoint(cell, q)
    IN ~Continues(point_in_mesh(verts, x)) /\ PointValueThrows(verts, x)

\* lines 155-213, on the moved mesh
FluidBcPass(verts, sl, fl, active, data) ==
  [cell \in AllFluidCells |->
     IF cell \in active
     THEN [q \in QPoints |-> QDataAt(verts, sl, fl, cell, q, data[cell][q])]
     ELSE data[cell]]

\* line 241: the faces find_solid_bc computes a traction on
FaceGetsTraction(c, f) == AtBoundary(c, f)

\* lines 246-270: sigma = -p I + mu sym(grad v) at the face, times the normal
TractionAt(verts, fl, c, f) ==
  LET x == verts[SolidCells[c][f]]
  IN (-FluidPressure(fl, x) + Physics.viscosity * FluidGradient(fl, x)) * Normal(f)

\* lines 233-274, on the moved mesh
SolidBcPass(verts, fl, tr) ==
  [c \in SolidCellIds |->
     [f \in FacesPerCell |->
        IF FaceGetsTraction(c, f) THEN TractionAt(verts, fl, c, f)
        ELSE tr[c][f]]]

\* lines 72-92: the new displacement, each vertex advanced once by the
\* fluid velocity at its moved position
RECURSIVE DisplacementLoop(_, _, _, _, _, _)
DisplacementLoop(k, verts, touched, disp, fl, dt) ==
  IF k > Len(Visits) THEN disp
  ELSE LET vi == SolidCells[Visits[k][1]][Visits[k][2]]
       IN IF vi \in touched
          THEN DisplacementLoop(k + 1, verts, touched, disp, fl, dt)
          ELSE DisplacementLoop(k + 1, verts, touched \cup {vi},
                 [disp EXCEPT ![vi] = @ + FluidVelocity(fl, verts[vi]) * dt],
                 fl, dt)

\* a solid mesh the model follows: inside the fluid domain, no cell inverted
InRange(disp) ==
  /\ \A v \in SolidVertices :
       RefPos[v] + disp[v] >= 0 /\ RefPos[v] + disp[v] <= DomainWidth
  /\ \A c \in SolidCellIds :
       RefPos[SolidCells[c][1]] + disp[SolidCells[c][1]]
         < RefPos[SolidCells[c][2]] + disp[SolidCells[c][2]]

BackwardDisplacement_New(old, new) == new

\* line 93: the displacement move_solid_mesh(false) reads is the one of
\* solid_solver, which line 94 has not yet assigned
BackwardDisplacement(old, new) == old

\* ------------------------------------------------------------------------
\* FSI::refine_mesh
\* ------------------------------------------------------------------------
RefineThreshold == 4    \* the 0.1 of line 291, in lattice units of 0.025
FarDistance == 40000    \* the 1000 of line 286, in the same units

\* lines 286-290: twice the smallest distance of the centre of a fluid cell
\* to the centre of a solid cell
RECURSIVE Dist2From(_, _, _, _)
Dist2From(c, verts, cell, dist2) ==
  IF c > Len(SolidCells) THEN dist2
  ELSE Dist2From(c + 1, verts, cell,
         Min2(Abs(2 * Center(cell)
                  - (verts[SolidCells[c][1]] + verts[SolidCells[c][2]])),
              dist2))

\* lines 283-295: the flag every active fluid cell gets
FlagPass(verts, active) ==
  [cell \in active |->
     IF Dist2From(1, verts, cell, 2 * FarDistance) < 2 * RefineThreshold
     THEN "refine" ELSE "coarsen"]

\* triangulation.n_levels()
NLevels(active) == 1 + CHOOSE l \in MeshLevels :
                         /\ \E cell \in active : cell[1] = l
                         /\ \A cell \in active : cell[1] <= l

ClampPass_NoRefineClamp(active, flags, min_grid_level, max_grid_level) ==
  [cell \in active |->
     IF flags[cell] = "coarsen" /\ cell[1] = min_grid_level
     THEN "none" ELSE flags[cell]]

\* lines 297-312: the two clamps
ClampPass(active, flags, min_grid_level, max_grid_level) ==
  [cell \in active |->
     IF /\ flags[cell] = "refine"
        /\ NLevels(active) > max_grid_level
        /\ cell[1] >= max_grid_level
     THEN "none"
     ELSE IF flags[cell] = "coarsen" /\ cell[1] = min_grid_level
     THEN "none"
     ELSE flags[cell]]

\* lines 318-321: flagged cells are replaced by their children; a cell is
\* replaced by its parent when it and its sibling are active and both are
\* flagged for coarsening
Coarsens(active, flags, cell) ==
  /\ cell[1] > 0
  /\ \A sib \in Children(Parent(cell)) : sib \in active /\ flags[sib] = "coarsen"

ExecuteCoarseningAndRefinement(active, flags) ==
  {cell \in active : flags[cell] # "refine" /\ ~Coarsens(active, flags, cell)}
  \cup UNION {Children(cell) : cell \in {a \in active : flags[a] = "refine"}}
  \cup {Parent(cell) : cell \in {a \in active : Coarsens(active, flags, a)}}

\* refine_mesh as a whole: the new set of active cells
refine_mesh(verts, active, min_grid_level, max_grid_level) ==
  ExecuteCoarseningAndRefinement(active,
    ClampPass(active, FlagPass(verts, active), min_grid_level, max_grid_level))

\* ------------------------------------------------------------------------
\* FSI::run and the operations called from outside it
\* ------------------------------------------------------------------------
FsiParamSet == [end_time : {MaxEnd}, time_step : 1..2, refinement_interval : 1..2]

RunOrder_FluidFirst ==
  <<"find_fluid_bc", "fluid_step", "find_solid_bc", "solid_step",
    "increment", "refine">>

\* lines 352-360: the statements of the loop body, in order
RunOrder ==
  <<"find_solid_bc", "solid_step", "find_fluid_bc", "fluid_step",
    "increment", "refine">>

After_Break(pc) ==
  LET k == CHOOSE i \in 1..Len(RunOrder) : RunOrder[i] = pc
  IN IF k = Len(RunOrder) THEN "done" ELSE RunOrder[k + 1]

\* the statement after pc; after the last one, the loop condition
After(pc) ==
  LET k == CHOOSE i \in 1..Len(RunOrder) : RunOrder[i] = pc
  IN IF k = Len(RunOrder) THEN "loop" ELSE RunOrder[k + 1]

\* Time::time_to_refine()
TimeToRefine(t, p) == t.timestep % p.refinement_interval = 0

\* the solid mesh as the bracket of a coupling operation leaves it
Forward(verts, sl) == move_solid_mesh(verts, sl.disp, TRUE)
Backward(verts, disp) == move_solid_mesh(verts, disp, FALSE)

FSIInit ==
  /\ fsi_params \in FsiParamSet
  /\ fsi_pc = "start"
  /\ last_op = "none"
  /\ first_step = TRUE
  /\ fsi_time = [current |-> 0, timestep |-> 0]
  /\ solid_vertex = RefPos
  /\ solid = ZeroSolid
  /\ solid_steps = 0
  /\ fsi_traction = NoTraction
  /\ fluid = ZeroFluid
  /\ fluid_steps = 0
  /\ fluid_active = RefineGlobal(0)
  /\ fluid_data = NoData

FSIFixed ==
  /\ fsi_params = [end_time |-> MaxEnd, time_step |-> 1, refinement_interval |-> 1]
  /\ fsi_pc = "start"
  /\ last_op = "none"
  /\ first_step = TRUE
  /\ fsi_time = [current |-> 0, timestep |-> 0]
  /\ solid_vertex = RefPos
  /\ solid = ZeroSolid
  /\ solid_steps = 0
  /\ fsi_traction = NoTraction
  /\ fluid = ZeroFluid
  /\ fluid_steps = 0
  /\ fluid_active = RefineGlobal(0)
  /\ fluid_data = NoData

\* lines 334-349
RunSetup ==
  /\ fsi_pc = "start"
  /\ fluid_active' = RefineGlobal(Physics.global_refinements)
  /\ fluid_data' = NoData
  /\ first_step' = TRUE
  /\ fsi_pc' = "loop"
  /\ last_op' = "setup"
  /\ UNCHANGED <<fsi_params, fsi_time, solid_vertex, solid, solid_steps,
                 fsi_traction, fluid, fluid_steps>>
  /\ UNCHANGED otherFSI

\* line 350
LoopTest ==
  /\ fsi_pc = "loop"
  /\ fsi_pc' = IF fsi_params.end_time - fsi_time.current > 0
               THEN RunOrder[1] ELSE "done"
  /\ UNCHANGED <<last_op, fsi_params, first_step, fsi_time, solid_vertex, solid,
                 solid_steps, fsi_traction, fluid, fluid_steps, fluid_active,
                 fluid_data>>
  /\ UNCHANGED otherFSI

\* line 352
FindSolidBc ==
  /\ fsi_pc = "find_solid_bc"
  /\ LET moved == Forward(solid_vertex, solid)
     IN /\ fsi_traction' = SolidBcPass(moved, fluid, fsi_traction)
        /\ solid_vertex' = Backward(moved, solid.disp)
  /\ fsi_pc' = After("find_solid_bc")
  /\ last_op' = "find_solid_bc"
  /\ UNCHANGED <<fsi_params, first_step, fsi_time, solid, solid_steps, fluid,
                 fluid_steps, fluid_active, fluid_data>>
  /\ UNCHANGED otherFSI

\* line 353
SolidRunOneStep ==
  /\ fsi_pc = "solid_step"
  /\ solid' \in SolidStates
  /\ solid_steps' = solid_steps + 1
  /\ fsi_pc' = After("solid_step")
  /\ last_op' = "solid_step"
  /\ UNCHANGED <<fsi_params, first_step, fsi_time, solid_vertex, fsi_traction,
                 fluid, fluid_steps, fluid_active, fluid_data>>
  /\ UNCHANGED otherFSI

\* line 354
FindFluidBc ==
  /\ fsi_pc = "find_fluid_bc"
  /\ LET moved == Forward(solid_vertex, solid)
     IN IF FluidBcThrows(moved, fluid_active)
        THEN \* the exception leaves the function before line 214
             /\ fluid_data' = fluid_data
             /\ solid_vertex' = moved
             /\ fsi_pc' = "failed"
        ELSE /\ fluid_data' = FluidBcPass(moved, solid, fluid, fluid_active,
                                          fluid_data)
             /\ solid_vertex' = Backward(moved, solid.disp)
             /\ fsi_pc' = After("find_fluid_bc")
  /\ last_op' = "find_fluid_bc"
  /\ UNCHANGED <<fsi_params, first_step, fsi_time, solid, solid_steps,
                 fsi_traction, fluid, fluid_steps, fluid_active>>
  /\ UNCHANGED otherFSI

\* line 355
FluidRunOneStep ==
  /\ fsi_pc = "fluid_step"
  /\ fluid' \in FluidStates
  /\ fluid_steps' = fluid_steps + 1
  /\ fsi_pc' = After("fluid_step")
  /\ last_op' = "fluid_step"
  /\ UNCHANGED <<fsi_params, first_step, fsi_time, solid_vertex, solid,
                 solid_steps, fsi_traction, fluid_active, fluid_data>>
  /\ UNCHANGED otherFSI

\* lines 356-357
TimeIncrement ==
  /\ fsi_pc = "increment"
  /\ first_step' = FALSE
  /\ fsi_time' = [current |-> fsi_time.current + fsi_params.time_step,
                  timestep |-> fsi_time.timestep + 1]
  /\ fsi_pc' = After("increment")
  /\ last_op' = "increment"
  /\ UNCHANGED <<fsi_params, solid_vertex, solid, solid_steps, fsi_traction,
                 fluid, fluid_steps, fluid_active, fluid_data>>
  /\ UNCHANGED otherFSI

\* lines 358-360, time_to_refine() true
RefineMesh ==
  /\ fsi_pc = "refine"
  /\ TimeToRefine(fsi_time, fsi_params)
  /\ LET moved == Forward(solid_vertex, solid)
     IN /\ fluid_active' = refine_mesh(moved, fluid_active,
                             Physics.global_refinements,
                             Physics.global_refinements + 2)
        /\ solid_vertex' = Backward(moved, solid.disp)
  /\ fluid_data' = NoData
  /\ fsi_pc' = After("refine")
  /\ last_op' = "refine_mesh"
  /\ UNCHANGED <<fsi_params, first_step, fsi_time, solid, solid_steps,
                 fsi_traction, fluid, fluid_steps>>
  /\ UNCHANGED otherFSI

\* lines 358-360, time_to_refine() false
SkipRefine ==
  /\ fsi_pc = "refine"
  /\ ~TimeToRefine(fsi_time, fsi_params)
  /\ fsi_pc' = After("refine")
  /\ UNCHANGED <<last_op, fsi_params, first_step, fsi_time, solid_vertex, solid,
                 solid_steps, fsi_traction, fluid, fluid_steps, fluid_active,
                 fluid_data>>
  /\ UNCHANGED otherFSI

\* update_indicator, lines 104-133, called by the owner of the coordinator
UpdateIndicator ==
  /\ fsi_pc = "done"
  /\ LET moved == Forward(solid_vertex, solid)
     IN /\ fluid_data' = IndicatorPass(moved, fluid_active, fluid_data)
        /\ solid_vertex' = Backward(moved, solid.disp)
  /\ last_op' = "update_indicator"
  /\ UNCHANGED <<fsi_params, fsi_pc, first_step, fsi_time, solid, solid_steps,
                 fsi_traction, fluid, fluid_steps, fluid_active>>
  /\ UNCHANGED otherFSI

\* update_solid_displacement, lines 67-95, called by the owner of the
\* coordinator
UpdateSolidDisplacement ==
  /\ fsi_pc = "done"
  /\ LET moved == Forward(solid_vertex, solid)
         displacement == DisplacementLoop(1, moved, {}, solid.disp, fluid,
                                          fsi_params.time_step)
     IN /\ InRange(displacement)
        /\ solid_vertex' = Backward(moved, BackwardDisplacement(solid.disp, displacement))
        /\ solid' = [solid EXCEPT !.disp = displacement]
  /\ last_op' = "update_solid_displacement"
  /\ UNCHANGED <<fsi_params, fsi_pc, first_step, fsi_time, solid_steps,
                 fsi_traction, fluid, fluid_steps, fluid_active, fluid_data>>
  /\ UNCHANGED otherFSI

\* the statements of run: control reaches each and each call returns
RunStep ==
  \/ RunSetup \/ LoopTest \/ FindSolidBc \/ SolidRunOneStep \/ FindFluidBc
  \/ FluidRunOneStep \/ TimeIncrement \/ RefineMesh \/ SkipRefine

FSINext ==
  \/ RunSetup \/ LoopTest \/ FindSolidBc \/ SolidRunOneStep \/ FindFluidBc
  \/ FluidRunOneStep \/ TimeIncrement \/ RefineMesh \/ SkipRefine
  \/ UpdateIndicator \/ UpdateSolidDisplacement

\* ------------------------------------------------------------------------
\* PointHistory
\* ------------------------------------------------------------------------
MaterialTypes == {"NeoHookean", "LinearElastic"}

\* parameters.C is a list of material constants, possibly empty
ConstantLists == {<<>>} \cup {<<m>> : m \in 1..MaxMu}

PHParamSet == [type : MaterialTypes, C : ConstantLists, rho : {1}]

\* new NeoHookean<dim>(mu, rho); updateData has not been called yet
NeoHookean(mu, rho) == [kind |-> "NeoHookean", mu |-> mu, rho |-> rho, F |-> 1]

\* an empty std::shared_ptr<Material>
NullMaterial == [kind |-> "null", mu |-> 0, rho |-> 0, F |-> 0]

\* what this->material may point to when setup is called
PriorMaterials == {NullMaterial} \cup {NeoHookean(m, 1) : m \in 1..MaxMu}

\* the stored state before the first update
HistNew == [FInv |-> Ratio(1, 1), tau |-> 0, Jc |-> 0,
            dPsi_vol_dJ |-> 0, d2Psi_vol_dJ2 |-> 0]

\* values an undefined read may leave in the stored state
GarbageHist == {[FInv |-> Ratio(1, 1), tau |-> t, Jc |-> t,
                 dPsi_vol_dJ |-> t, d2Psi_vol_dJ2 |-> t] : t \in 0..1}

\* Physics::Elasticity::Kinematics::F(Grad_u) = I + Grad_u
KinematicsF(Grad_u) == 1 + Grad_u

\* NeoHookean accessors, evaluated on the F of the last updateData
getTau(m) == m.mu * (m.F * m.F - 1)
getJc(m) == 2 * m.mu * m.F * m.F
get_dPsi_vol_dJ(m) == m.rho * (m.F - 1)
get_d2Psi_vol_dJ2(m) == m.rho

\* Assert(cond, exc): TRUE when the program is aborted here; the macro
\* expands to nothing unless the build is a debug build
DealiiAssert(debug, cond) == debug /\ ~cond

UpdateOutcomes_Accumulate(debug, mat, h, Grad_u) ==
  LET m == [mat EXCEPT !.F = KinematicsF(Grad_u)] IN
  IF mat.kind = "null"
  THEN {<<"crashed", mat, h>>} \cup {<<"ready", mat, g>> : g \in GarbageHist}
  ELSE {<<"ready", m, [FInv |-> Ratio(1, m.F), tau |-> h.tau + getTau(m),
                       Jc |-> getJc(m),
                       dPsi_vol_dJ |-> get_dPsi_vol_dJ(m),
                       d2Psi_vol_dJ2 |-> get_d2Psi_vol_dJ2(m)]>>}

\* PointHistory::update, lines 23-39: the outcomes <<pc, material, hist>>
UpdateOutcomes(debug, mat, h, Grad_u) ==
  LET F == KinematicsF(Grad_u) IN
  IF mat.kind = "null"
  THEN \* line 27 calls a member of a null pointer: undefined behaviour
       {<<"crashed", mat, h>>} \cup {<<"ready", mat, g>> : g \in GarbageHist}
  ELSE LET m == [mat EXCEPT !.F = F] IN
       IF DealiiAssert(debug, m.kind = "NeoHookean")
       THEN {<<"aborted", m, [h EXCEPT !.FInv = Ratio(1, F)]>>}
       ELSE {<<"ready", m, [FInv |-> Ratio(1, F), tau |-> getTau(m),
                            Jc |-> getJc(m),
                            dPsi_vol_dJ |-> get_dPsi_vol_dJ(m),
                            d2Psi_vol_dJ2 |-> get_d2Psi_vol_dJ2(m)]>>}

\* PointHistory::setup, lines 6-20: the outcomes <<pc, material, hist>>
SetupOutcomes(debug, p, mat, h) ==
  IF p.type = "NeoHookean"
  THEN IF DealiiAssert(debug, mat.kind = "NeoHookean")
       THEN {<<"aborted", mat, h>>}
       ELSE IF DealiiAssert(debug, p.C # <<>>)
       THEN {<<"aborted", mat, h>>}
       ELSE \* line 13 resets the local pointer nh, not this->material;
            \* with an empty C it reads C[0] out of bounds first
            (IF p.C = <<>> THEN {<<"crashed", mat, h>>} ELSE {})
            \cup UpdateOutcomes(debug, mat, h, 0)
  ELSE IF DealiiAssert(debug, FALSE)
       THEN {<<"aborted", mat, h>>}
       ELSE {<<"ready", mat, h>>}

PHInit ==
  /\ debug_build \in BOOLEAN
  /\ ph_params \in PHParamSet
  /\ ph_pc = "new"
  /\ material \in PriorMaterials
  /\ hist = HistNew
  /\ last_grad = -1
  /\ prev_grad = -1
  /\ ph_calls = 0

PHFixed ==
  /\ debug_build = TRUE
  /\ ph_params = [type |-> "NeoHookean", C |-> <<1>>, rho |-> 1]
  /\ ph_pc = "new"
  /\ material = NullMaterial
  /\ hist = HistNew
  /\ last_grad = -1
  /\ prev_grad = -1
  /\ ph_calls = 0

\* setupQPH, line 306: lqph[q]->setup(parameters)
PHSetup ==
  /\ ph_pc = "new"
  /\ \E o \in SetupOutcomes(debug_build, ph_params, material, hist) :
       /\ ph_pc' = o[1]
       /\ material' = o[2]
       /\ hist' = o[3]
       \* line 14: setup has called update with a zero gradient
       /\ last_grad' = IF o[1] = "ready" /\ ph_params.type = "NeoHookean"
                       THEN 0 ELSE -1
  /\ UNCHANGED <<debug_build, ph_params, prev_grad, ph_calls>>
  /\ UNCHANGED otherPH

\* updateLocalQPH, line 347: lqph[q]->update(scratch.grad_u[q])
PHUpdate ==
  /\ ph_pc = "ready"
  /\ ph_calls < MaxUpdates
  /\ ph_calls' = ph_calls + 1
  /\ \E Grad_u \in 0..MaxGrad :
       \E o \in UpdateOutcomes(debug_build, material, hist, Grad_u) :
         /\ ph_pc' = o[1]
         /\ material' = o[2]
         /\ hist' = o[3]
         /\ last_grad' = Grad_u
  /\ prev_grad' = last_grad
  /\ UNCHANGED <<debug_build, ph_params>>
  /\ UNCHANGED otherPH

PHNext == PHSetup \/ PHUpdate

\* C9: setup returns only for an implemented material type with a
\* non-empty constant list; otherwise it ends in a fatal error.
C9_SetupFailsFatally ==
  ph_pc = "ready" =>
    (ph_params.type = "NeoHookean" /\ ph_params.C # <<>>)

\* the stored state a NeoHookean with the given constants has for Grad_u
StoredStateOf(mu, rho, Grad_u) ==
  LET m == [NeoHookean(mu, rho) EXCEPT !.F = 1 + Grad_u]
  IN [FInv |-> Ratio(1, 1 + Grad_u), tau |-> getTau(m), Jc |-> getJc(m),
      dPsi_vol_dJ |-> get_dPsi_vol_dJ(m),
      d2Psi_vol_dJ2 |-> get_d2Psi_vol_dJ2(m)]

\* C11: for a state that owns a material, update(G) called again with the
\* same G leaves the stored state and the material as they are, and after
\* any update the stored state is the one G and the material's constants
\* give, whatever it was before the call.
C11_UpdateIdempotent ==
  /\ [][ ( /\ ph_calls' = ph_calls + 1
           /\ material.kind = "NeoHookean"
           /\ last_grad' = last_grad )
         => (ph_pc' = "ready" /\ hist' = hist /\ material' = material) ]_vars
  /\ []( ( /\ ph_pc = "ready"
           /\ material.kind = "NeoHookean"
           /\ last_grad # -1 )
         => hist = StoredStateOf(material.mu, material.rho, last_grad) )

C11_Witness ==
  /\ ph_pc = "ready"
  /\ ph_calls = 2
  /\ last_grad = 2
  /\ prev_grad = 2
  /\ material.kind = "NeoHookean"
  /\ hist.tau # 0
  /\ hist = StoredStateOf(material.mu, material.rho, 2)

\* C15: after setup returns for a NeoHookean configuration the state owns
\* a NeoHookean built from C[0] and rho, in the identity deformation.
C15_SetupInstallsMaterial ==
  ( /\ ph_pc = "ready"
    /\ ph_calls = 0
    /\ ph_params.type = "NeoHookean"
    /\ ph_params.C # <<>> )
  => /\ material.kind = "NeoHookean"
     /\ material.mu = ph_params.C[1]
     /\ material.rho = ph_params.rho
     /\ material.F = 1
     /\ hist = StoredStateOf(ph_params.C[1], ph_params.rho, 0)

\* ------------------------------------------------------------------------
\* solveNonlinearTimestep
\* ------------------------------------------------------------------------
\* assembleGlobalRHS + getErrorResidual: the out-of-balance force of the
\* configuration stored in the quadrature point history
Residual(ld, u) == ld - u

\* solveLinearSystem: the Newton update of K du = R; zero exactly when the
\* residual is zero, otherwise any nonzero update that keeps the total
\* displacement in range (the tangent is that of a nonlinear problem)
SolveLinearSystem(r, u) ==
  IF r = 0 THEN {0}
  ELSE {du \in (-2 * MaxDisp)..(2 * MaxDisp) : du # 0 /\ Abs(u + du) <= MaxDisp}

ConvergenceTest_NoIterGuard(it, eu, er, p) ==
  LeTol(eu, p.tol_u) /\ LeTol(er, p.tol_f)

\* the condition of the if at lines 386-387
ConvergenceTest(it, eu, er, p) ==
  it > 0 /\ LeTol(eu, p.tol_u) /\ LeTol(er, p.tol_f)

AssertThrowNR_Off(it, max) == "returned"

\* AssertThrow(newton_iteration < max_iterations_NR, ...) at line 420
AssertThrowNR(it, max) == IF it < max THEN "returned" ELSE "threw"

\* getSolution(solution_delta)
getSolution(sol, delta) == sol + delta

Baseline_EveryIteration(it, current, old) == current

\* lines 378-381 and 402-405: the baseline is taken at iteration 0
Baseline(it, current, old) == IF it = 0 THEN current ELSE old

IncrementPassed_BeforeAdd(delta, newton_update) == delta

\* lines 410-411: the increment updateGlobalQPH is called with
IncrementPassed(delta, newton_update) == delta + newton_update

\* lines 311-331: every quadrature point state is updated from the total
\* displacement
updateGlobalQPH(sol, delta) == getSolution(sol, delta)

NRFixed ==
  /\ params = [max_iterations_NR |-> 1, tol_u |-> Ratio(0, 1), tol_f |-> Ratio(0, 1)]
  /\ nr_pc = "idle"
  /\ timestep = 1
  /\ load = 0
  /\ solution = 0
  /\ solution_delta = 0
  /\ qph_u = 0
  /\ newton_iteration = 0
  /\ errorResidual = 0 /\ errorResidual0 = 0
  /\ errorResidualNorm = ErrorsReset
  /\ errorUpdate = 0 /\ errorUpdate0 = 0
  /\ errorUpdateNorm = ErrorsReset

NRInit ==
  /\ params \in ParamSet
  /\ nr_pc = "idle"
  /\ timestep = 1
  /\ load = 0
  /\ solution = 0
  /\ solution_delta = 0
  /\ qph_u = 0
  /\ newton_iteration = 0
  /\ errorResidual = 0 /\ errorResidual0 = 0
  /\ errorResidualNorm = ErrorsReset
  /\ errorUpdate = 0 /\ errorUpdate0 = 0
  /\ errorUpdateNorm = ErrorsReset

\* runStatics, lines 74-77, and solveNonlinearTimestep up to the loop head
BeginTimestep ==
  /\ nr_pc = "idle"
  /\ timestep <= MaxSteps
  /\ load' \in 0..MaxLoad
  /\ solution_delta' = 0
  /\ errorResidual' = 0 /\ errorResidual0' = 0
  /\ errorResidualNorm' = ErrorsReset
  /\ errorUpdate' = 0 /\ errorUpdate0' = 0
  /\ errorUpdateNorm' = ErrorsReset
  /\ newton_iteration' = 0
  /\ nr_pc' = "loop"
  /\ UNCHANGED <<params, timestep, solution, qph_u>>
  /\ UNCHANGED otherNR

\* one pass through the body of the Newton loop, lines 369-418
NewtonIteration ==
  /\ nr_pc = "loop"
  /\ newton_iteration < params.max_iterations_NR
  /\ LET r   == Residual(load, qph_u)
         er  == Abs(r)
         er0 == Baseline(newton_iteration, er, errorResidual0)
         ern == Normalize(er, er0)
     IN /\ errorResidual' = er
        /\ errorResidual0' = er0
        /\ errorResidualNorm' = ern
        /\ IF ConvergenceTest(newton_iteration, errorUpdateNorm, ern, params)
           THEN /\ nr_pc' = "converged"
                /\ UNCHANGED <<solution_delta, qph_u, newton_iteration,
                               errorUpdate, errorUpdate0, errorUpdateNorm>>
           ELSE \E du \in SolveLinearSystem(r, qph_u) :
                  LET eu  == Abs(du)
                      eu0 == Baseline(newton_iteration, eu, errorUpdate0)
                  IN /\ errorUpdate' = eu
                     /\ errorUpdate0' = eu0
                     /\ errorUpdateNorm' = Normalize(eu, eu0)
                     /\ solution_delta' = solution_delta + du
                     /\ qph_u' = updateGlobalQPH(solution,
                                     IncrementPassed(solution_delta, du))
                     /\ newton_iteration' = newton_iteration + 1
                     /\ nr_pc' = "loop"
  /\ UNCHANGED <<params, timestep, load, solution>>
  /\ UNCHANGED otherNR

\* the loop is left (by the break or by its condition) and line 420 is run
NewtonExit ==
  /\ \/ nr_pc = "converged"
     \/ nr_pc = "loop" /\ newton_iteration >= params.max_iterations_NR
  /\ nr_pc' = AssertThrowNR(newton_iteration, params.max_iterations_NR)
  /\ UNCHANGED <<params, timestep, load, solution, solution_delta, qph_u,
                 newton_iteration, errorResidual, errorResidual0,
                 errorResidualNorm, errorUpdate, errorUpdate0, errorUpdateNorm>>
  /\ UNCHANGED otherNR

\* runStatics, lines 78-80
AcceptTimestep ==
  /\ nr_pc = "returned"
  /\ solution' = solution + solution_delta
  /\ timestep' = timestep + 1
  /\ nr_pc' = "idle"
  /\ UNCHANGED <<params, load, solution_delta, qph_u, newton_iteration,
                 errorResidual, errorResidual0, errorResidualNorm,
                 errorUpdate, errorUpdate0, errorUpdateNorm>>
  /\ UNCHANGED otherNR

NRNext == BeginTimestep \/ NewtonIteration \/ NewtonExit \/ AcceptTimestep

\* ------------------------------------------------------------------------
\* updateGlobalQPH: WorkStream::run over the active cells
\* ------------------------------------------------------------------------
\* the threads WorkStream runs the element tasks on
Workers == {"w1", "w2"}

\* the total displacement fields a pass is called with
TotalFields ==
  {u \in [SolidVertices -> 0..MaxDisp] : u[1] <= u[2] /\ u[2] <= u[3]}

\* line 342: the displacement gradient of the field at a point of the cell
GradAt(u, cell, q) == u[SolidCells[cell][2]] - u[SolidCells[cell][1]]

\* the material every quadrature point state owns
PointMaterial == NeoHookean(1, 1)

\* the state of a point after setupQPH
PointNew == [material |-> PointMaterial, hist |-> StoredStateOf(1, 1, 0)]

\* ScratchDataQPH::grad_u of the sample scratch object
ScratchNew == [q \in QPoints |-> 0]

TaskIdle == [pc |-> "idle", cell |-> 0, q |-> 0, grad_u |-> ScratchNew]

LocalQPH_Shared(cell, q) == <<1, q>>

\* lines 337-338: the point states get_data hands to the task of a cell
LocalQPH(cell, q) == <<cell, q>>

WSInit ==
  /\ ws_pc = "idle"
  /\ ws_passes = 0
  /\ solution_total = [v \in SolidVertices |-> 0]
  /\ ws_pending = {}
  /\ ws_task = [w \in Workers |-> TaskIdle]
  /\ qph = [c \in SolidCellIds |-> [q \in QPoints |-> PointNew]]
  /\ qph_touched = [c \in SolidCellIds |-> [q \in QPoints |-> {}]]
  /\ ws_log = <<>>

WSFixed == WSInit

\* lines 312-319: the locals of updateGlobalQPH; the scratch object of every
\* thread is a copy of scratch_data_QPH
QPHBegin ==
  /\ ws_pc = "idle"
  /\ ws_passes < MaxPasses
  /\ ws_passes' = ws_passes + 1
  /\ solution_total' \in TotalFields
  /\ ws_pending' = SolidCellIds
  /\ ws_task' = [w \in Workers |-> TaskIdle]
  /\ qph_touched' = [c \in SolidCellIds |-> [q \in QPoints |-> {}]]
  /\ ws_log' = <<>>
  /\ ws_pc' = "running"
  /\ UNCHANGED qph
  /\ UNCHANGED otherWS

\* WorkStream hands a cell to a free thread; lines 337-339
TakeCell(w) ==
  /\ ws_pc = "running"
  /\ ws_task[w].pc = "idle"
  /\ \E cell \in ws_pending :
       /\ ws_pending' = ws_pending \ {cell}
       /\ ws_task' = [ws_task EXCEPT ![w].pc = "reset", ![w].cell = cell]
  /\ UNCHANGED <<ws_pc, ws_passes, solution_total, qph, qph_touched, ws_log>>
  /\ UNCHANGED otherWS

\* line 340, ScratchDataQPH::reset
ResetScratch(w) ==
  /\ ws_task[w].pc = "reset"
  /\ ws_task' = [ws_task EXCEPT ![w].pc = "gradients",
                                ![w].grad_u = [q \in QPoints |-> 0]]
  /\ UNCHANGED <<ws_pc, ws_passes, solution_total, ws_pending, qph,
                 qph_touched, ws_log>>
  /\ UNCHANGED otherWS

\* lines 341-342: reinit and get_function_gradients, reading scratch.solution
FunctionGradients(w) ==
  /\ ws_task[w].pc = "gradients"
  /\ ws_task' = [ws_task EXCEPT
                   ![w].pc = "update",
                   ![w].q = 1,
                   ![w].grad_u = [q \in QPoints |->
                                    GradAt(solution_total, ws_task[w].cell, q)]]
  /\ UNCHANGED <<ws_pc, ws_passes, solution_total, ws_pending, qph,
                 qph_touched, ws_log>>
  /\ UNCHANGED otherWS

\* lines 343-346: one pass of the loop over the quadrature points
UpdatePoint(w) ==
  /\ ws_task[w].pc = "update"
  /\ LET t == ws_task[w]
         at == LocalQPH(t.cell, t.q)
         old == qph[at[1]][at[2]]
     IN /\ \E o \in UpdateOutcomes(TRUE, old.material, old.hist, t.grad_u[t.q]) :
             qph' = [qph EXCEPT ![at[1]][at[2]] =
                                  [material |-> o[2], hist |-> o[3]]]
        /\ qph_touched' = [qph_touched EXCEPT ![at[1]][at[2]] = @ \cup {t.cell}]
        /\ IF t.q < Cardinality(QPoints)
           THEN /\ ws_task' = [ws_task EXCEPT ![w].q = t.q + 1]
                /\ ws_log' = ws_log
           ELSE /\ ws_task' = [ws_task EXCEPT ![w].pc = "idle", ![w].cell = 0,
                                              ![w].q = 0]
                /\ ws_log' = Append(ws_log, t.cell)
  /\ UNCHANGED <<ws_pc, ws_passes, solution_total, ws_pending>>
  /\ UNCHANGED otherWS

\* WorkStream::run returns when every cell has been worked on; line 328
QPHEnd ==
  /\ ws_pc = "running"
  /\ ws_pending = {}
  /\ \A w \in Workers : ws_task[w].pc = "idle"
  /\ ws_pc' = "idle"
  /\ UNCHANGED <<ws_passes, solution_total, ws_pending, ws_task, qph,
                 qph_touched, ws_log>>
  /\ UNCHANGED otherWS

WSNext ==
  \/ QPHBegin
  \/ \E w \in Workers : TakeCell(w)
  \/ \E w \in Workers : ResetScratch(w)
  \/ \E w \in Workers : FunctionGradients(w)
  \/ \E w \in Workers : UpdatePoint(w)
  \/ QPHEnd

\* C18: in a pass of updateGlobalQPH the state of a quadrature point is
\* accessed by the task of its own element only, and by that one; the total
\* displacement is not written during the pass; and when the pass has
\* returned the state of every point is the one its material and the
\* gradient of the displacement field at the point give, whatever the
\* order the tasks ran and interleaved in.
C18_QPHOrderIndependent ==
  /\ [][ws_pc = "running" => solution_total' = solution_total]_vars
  /\ [](\A c \in SolidCellIds : \A q \in QPoints : qph_touched[c][q] \subseteq {c})
  /\ []( (ws_pc = "idle" /\ ws_passes > 0)
         => \A c \in SolidCellIds : \A q \in QPoints :
              /\ qph_touched[c][q] = {c}
              /\ qph[c][q].hist
                   = StoredStateOf(PointMaterial.mu, PointMaterial.rho,
                                   GradAt(solution_total, c, q)) )

C18_Witness ==
  /\ ws_pc = "idle"
  /\ ws_passes = 2
  /\ ws_log = <<2, 1>>
  /\ GradAt(solution_total, 1, 1) = 0
  /\ GradAt(solution_total, 2, 1) = 2
  /\ qph[1][1].hist # qph[2][1].hist

\* ------------------------------------------------------------------------
\* Properties of solveNonlinearTimestep
\* ------------------------------------------------------------------------
\* the loop is at its head and will run the body once more
AtLoopHead == nr_pc = "loop" /\ newton_iteration < params.max_iterations_NR

\* C1: a pass of the Newton loop declares convergence at iteration k if and
\* only if k > 0, the normalised update norm is <= tol_u and the normalised
\* residual norm of this pass is <= tol_f; never at iteration 0; and after
\* convergence no further iteration is run in that time step.
C1_ConvergedIff ==
  [][ /\ AtLoopHead =>
           ( (nr_pc' = "converged")
             <=> /\ newton_iteration > 0
                 /\ LeTol(errorUpdateNorm, params.tol_u)
                 /\ LeTol(errorResidualNorm', params.tol_f) )
      /\ (nr_pc' = "converged" /\ nr_pc # "converged") =>
           /\ AtLoopHead
           /\ newton_iteration' = newton_iteration
           /\ newton_iteration > 0
      /\ nr_pc = "converged" =>
           /\ nr_pc' \in {"converged", "returned"}
           /\ newton_iteration' = newton_iteration
           /\ solution_delta' = solution_delta
           /\ qph_u' = qph_u ]_vars

C1_Witness ==
  /\ nr_pc = "converged"
  /\ newton_iteration > 0
  /\ newton_iteration < params.max_iterations_NR

\* C2: when the loop has run max_iterations_NR passes without the
\* convergence test passing, the time step ends in the fatal error; the
\* function returns normally only after a pass whose convergence test passed.
C2_NoSilentAccept ==
  /\ [](nr_pc = "returned" =>
          /\ newton_iteration > 0
          /\ newton_iteration < params.max_iterations_NR
          /\ LeTol(errorUpdateNorm, params.tol_u)
          /\ LeTol(errorResidualNorm, params.tol_f))
  /\ [][ /\ (nr_pc = "loop" /\ newton_iteration >= params.max_iterations_NR)
              => nr_pc' = "threw"
         /\ nr_pc = "threw" => nr_pc' = "threw"
         /\ nr_pc' = "returned" => nr_pc = "converged" ]_vars

C2_Witness ==
  /\ nr_pc = "threw"
  /\ params.max_iterations_NR = 1
  /\ newton_iteration = 1
  /\ Residual(load, qph_u) # 0

\* C14: a Newton iteration that does not converge adds the update it solved
\* for to the increment and then updates the quadrature point states from
\* solution + increment, so the next iteration assembles on that state; the
\* converging iteration solves nothing and changes neither the increment
\* nor the quadrature point states.
C14_UpdateThenQPH ==
  /\ [][ newton_iteration' = newton_iteration + 1
         => /\ errorUpdate' = Abs(solution_delta' - solution_delta)
            /\ qph_u' = solution + solution_delta'
            /\ solution' = solution ]_vars
  /\ []( (nr_pc = "loop" /\ newton_iteration > 0)
         => qph_u = solution + solution_delta )
  /\ [][ (nr_pc = "loop" /\ nr_pc' = "converged")
         => UNCHANGED <<solution_delta, qph_u, newton_iteration, errorUpdate,
                        errorUpdate0, errorUpdateNorm>> ]_vars

C14_Witness ==
  /\ nr_pc = "converged"
  /\ newton_iteration >= 2
  /\ solution # 0
  /\ solution_delta # 0
  /\ qph_u = solution + solution_delta

\* C16: within a time step the residual and update baselines are written
\* at iteration 0 only and stay as they are in later iterations; each
\* normalised norm is the current norm over its baseline; and all six
\* trackers are reset when a time step starts.
C16_BaselinesAndReset ==
  /\ [][ (errorResidual0' # errorResidual0 \/ errorUpdate0' # errorUpdate0)
         => \/ nr_pc = "idle"
            \/ nr_pc = "loop" /\ newton_iteration = 0 ]_vars
  /\ [][ (nr_pc = "loop" /\ nr_pc' # "threw")
         => /\ errorResidualNorm' = Normalize(errorResidual', errorResidual0')
            /\ newton_iteration' > newton_iteration
                 => errorUpdateNorm' = Normalize(errorUpdate', errorUpdate0') ]_vars
  /\ [][ (nr_pc = "idle" /\ nr_pc' = "loop")
         => /\ errorResidual' = 0 /\ errorResidual0' = 0
            /\ errorUpdate' = 0 /\ errorUpdate0' = 0
            /\ errorResidualNorm' = ErrorsReset
            /\ errorUpdateNorm' = ErrorsReset ]_vars

C16_Witness ==
  /\ nr_pc = "loop"
  /\ timestep = 2
  /\ newton_iteration = 2
  /\ errorResidual0 > errorResidual
  /\ errorResidual > 0
  /\ errorUpdate0 # errorUpdate
  /\ errorResidualNorm = Ratio(errorResidual, errorResidual0)

\* C10: a time step whose initial residual is exactly zero converges after
\* exactly one Newton iteration and leaves the displacement increment zero.
C10_ZeroResidualConverges ==
  ( /\ params.max_iterations_NR >= 2
    /\ nr_pc \in {"returned", "threw"}
    /\ errorResidual0 = 0 )
  => /\ nr_pc = "returned"
     /\ newton_iteration = 1
     /\ solution_delta = 0

\* ------------------------------------------------------------------------
\* Properties of the coupling
\* ------------------------------------------------------------------------
\* the solid mesh in its displaced configuration
Displaced == [v \in SolidVertices |-> RefPos[v] + solid.disp[v]]

\* x lies inside at least one cell of the displaced solid mesh
InsideSolid(x) == \E c \in SolidCellIds : PointInside(Displaced, c, x)

\* C3: in every time step of run: find_solid_bc, one solid step,
\* find_fluid_bc, one fluid step, the time increment, and refine_mesh only
\* when the step counter matches the refinement interval, each once and in
\* this order; after k completed steps both solvers have made k steps, and
\* the fluid step of a time step never precedes its solid step.
C3_StepOrder ==
  /\ [](/\ fluid_steps <= solid_steps /\ solid_steps <= fluid_steps + 1
        /\ fsi_time.timestep <= fluid_steps
        /\ fluid_steps <= fsi_time.timestep + 1
        /\ (fsi_pc \in {"loop", "done"} =>
              solid_steps = fsi_time.timestep /\ fluid_steps = fsi_time.timestep))
  /\ [][ /\ (last_op' = "find_solid_bc" /\ last_op # "find_solid_bc") =>
              /\ last_op \in {"setup", "increment", "refine_mesh"}
              /\ solid_steps = fsi_time.timestep /\ fluid_steps = fsi_time.timestep
         /\ solid_steps' # solid_steps =>
              /\ solid_steps' = solid_steps + 1
              /\ last_op = "find_solid_bc" /\ last_op' = "solid_step"
              /\ \A c \in SolidCellIds : \A f \in FacesPerCell :
                   (AtBoundary(c, f) /\ ~HasDirichlet(c, f)) =>
                      fsi_traction[c][f] = TractionAt(Displaced, fluid, c, f)
         /\ (last_op' = "find_fluid_bc" /\ last_op # "find_fluid_bc") =>
              last_op = "solid_step"
         /\ fluid_steps' # fluid_steps =>
              /\ fluid_steps' = fluid_steps + 1
              /\ last_op = "find_fluid_bc" /\ last_op' = "fluid_step"
              /\ solid_steps = fluid_steps + 1
         /\ fsi_time' # fsi_time =>
              /\ last_op = "fluid_step" /\ last_op' = "increment"
              /\ fsi_time'.timestep = fsi_time.timestep + 1
              /\ solid_steps = fsi_time'.timestep
              /\ fluid_steps = fsi_time'.timestep
         /\ (fsi_pc = "refine" /\ fsi_pc' # fsi_pc) =>
              /\ last_op = "increment"
              /\ (last_op' = "refine_mesh"
                    <=> fsi_time.timestep % fsi_params.refinement_interval = 0)
         /\ (last_op' = "refine_mesh" /\ last_op # "refine_mesh") => fsi_pc = "refine"
         /\ (fluid_active' # fluid_active /\ fsi_pc # "start") =>
              last_op' = "refine_mesh" ]_vars

C3_Witness ==
  /\ fsi_pc = "loop"
  /\ fsi_time.timestep = 2
  /\ solid_steps = 2 /\ fluid_steps = 2
  /\ last_op = "refine_mesh"
  /\ fsi_params.refinement_interval = 2

\* C4: every coupling operation samples on the solid mesh moved forward by
\* the current displacement and leaves the mesh in its reference
\* configuration, so the mesh is in the reference configuration between any
\* two operations and whenever the solid solver's run_one_step is called.
C4_ReferenceConfiguration ==
  /\ [](solid_vertex = RefPos)
  /\ [][ (fsi_pc = "done" /\ solid' # solid) =>
           \A v \in SolidVertices :
             solid'.disp[v] =
               solid.disp[v]
               + FluidVelocity(fluid, RefPos[v] + solid.disp[v])
                 * fsi_params.time_step ]_vars

C4_Witness ==
  /\ last_op = "update_solid_displacement"
  /\ \E v \in SolidVertices : solid.disp[v] # 0
  /\ solid.disp \notin {sl.disp : sl \in SolidStates}
  /\ solid.disp[1] # solid.disp[3]
  /\ solid_vertex = RefPos

\* C6: after find_fluid_bc the indicator of every fluid quadrature point is
\* true iff the point lies inside some cell of the displaced solid mesh, a
\* point with a false indicator has zero fsi_acceleration and fsi_stress, and
\* all three values are the ones the current solid and fluid state give.
C6_FluidBcFromScratch ==
  last_op = "find_fluid_bc" =>
    \A cell \in fluid_active : \A q \in QPoints :
      LET x == QuadraturePoint(cell, q)
          d == fluid_data[cell][q]
      IN /\ d.indicator <=> InsideSolid(x)
         /\ ~d.indicator => (d.fsi_acceleration = 0 /\ d.fsi_stress = 0)
         /\ d.indicator =>
              /\ d.fsi_acceleration = Physics.gravity - solid.acc
              /\ \E c \in SolidCellIds :
                   /\ PointInside(Displaced, c, x)
                   /\ d.fsi_stress =
                        -FluidPressure(fluid, x)
                        + Physics.viscosity * FluidGradient(fluid, x)
                        - solid.stress[c]

C6_Witness ==
  /\ last_op = "find_fluid_bc"
  /\ fsi_time.timestep >= 1
  /\ \E cell \in fluid_active : \E q \in QPoints :
       /\ fluid_data[cell][q].indicator
       /\ fluid_data[cell][q].fsi_stress # 0
  /\ \E cell \in fluid_active : \E q \in QPoints : ~fluid_data[cell][q].indicator

\* C12: a fluid quadrature point that lies in no solid cell is a miss the
\* pass recovers from: point_in_mesh is false there, the indicator stored
\* for the point is false, no solid field is interpolated at it (its
\* acceleration and stress stay zero and no point_value call throws), and
\* the coupling step goes on to the fluid step.
C12_MissIsRecoverable ==
  /\ fsi_pc # "failed"
  /\ last_op = "find_fluid_bc" =>
       /\ fsi_pc = "fluid_step"
       /\ \A cell \in fluid_active : \A q \in QPoints :
            ~InsideSolid(QuadraturePoint(cell, q)) =>
              /\ ~point_in_mesh(Displaced, QuadraturePoint(cell, q))
              /\ fluid_data[cell][q] = QData(FALSE, 0, 0)

C12_Witness ==
  /\ last_op = "find_fluid_bc"
  /\ fsi_pc = "fluid_step"
  /\ solid.stress[1] # 0
  /\ \E cell \in fluid_active : \E q \in QPoints :
       ~InsideSolid(QuadraturePoint(cell, q))
  /\ \E cell \in fluid_active : \E q \in QPoints :
       fluid_data[cell][q].indicator

\* C13: with a positive time step and no fatal failure run terminates; it
\* leaves the loop only from the loop condition and only when
\* end - current is not above the threshold; once the condition finds the
\* end time reached no coupling step runs, and after run has returned
\* none runs either.
C13_RunTerminates ==
  /\ (fsi_params.time_step > 0 /\ [](fsi_pc # "failed")) => <>(fsi_pc = "done")
  /\ [][ (fsi_pc' = "done" /\ fsi_pc # "done")
         => (fsi_pc = "loop" /\ fsi_params.end_time - fsi_time.current <= 0) ]_vars
  /\ [][ (fsi_pc = "loop" /\ fsi_params.end_time - fsi_time.current <= 0)
         => fsi_pc' = "done" ]_vars
  /\ [][ fsi_pc = "done"
         => (fsi_pc' = "done" /\ UNCHANGED <<fsi_time, solid_steps, fluid_steps,
                                             fsi_traction, fluid_active>>) ]_vars

C13_Witness ==
  /\ fsi_pc = "done"
  /\ last_op # "update_indicator"
  /\ last_op # "update_solid_displacement"
  /\ fsi_params.time_step = 2
  /\ fsi_time.current > fsi_params.end_time
  /\ solid_steps = 2
  /\ fluid_steps = 2

\* the centre of the fluid cell is closer than the threshold to the centre
\* of some solid cell of the displaced mesh
NearSolid(cell) ==
  \E c \in SolidCellIds :
    Abs(2 * Center(cell)
        - (Displaced[SolidCells[c][1]] + Displaced[SolidCells[c][2]]))
      < 2 * RefineThreshold

\* C17: when refine_mesh is called every active fluid cell is flagged, for
\* refinement if its centre is closer than 0.1 to the centre of some
\* displaced solid cell and for coarsening otherwise; after the clamps no
\* cell at level max_grid_level or above keeps a refine flag and no cell at
\* level min_grid_level keeps a coarsen flag; and the level of every active
\* fluid cell stays within [min_grid_level, max_grid_level].
C17_LevelsClamped ==
  LET min_grid_level == Physics.global_refinements
      max_grid_level == Physics.global_refinements + 2
      flags == FlagPass(Forward(solid_vertex, solid), fluid_active)
      clamped == ClampPass(fluid_active, flags, min_grid_level, max_grid_level)
  IN /\ fsi_pc = "refine" =>
          \A cell \in fluid_active :
            /\ flags[cell] = IF NearSolid(cell) THEN "refine" ELSE "coarsen"
            /\ cell[1] >= max_grid_level => clamped[cell] # "refine"
            /\ cell[1] = min_grid_level => clamped[cell] # "coarsen"
            /\ cell[1] \notin {min_grid_level, max_grid_level}
                 => clamped[cell] = flags[cell]
     /\ fsi_pc # "start" =>
          \A cell \in fluid_active :
            min_grid_level <= cell[1] /\ cell[1] <= max_grid_level

C17_Witness ==
  /\ fsi_pc = "refine"
  /\ TimeToRefine(fsi_time, fsi_params)
  /\ \E cell \in fluid_active :
       cell[1] = Physics.global_refinements + 2 /\ NearSolid(cell)
  /\ \E cell \in fluid_active :
       cell[1] = Physics.global_refinements /\ ~NearSolid(cell)

\* C7: after update_indicator all quadrature points of a fluid cell carry
\* the same indicator, true iff every vertex of the cell lies inside some
\* cell of the displaced solid mesh.
C7_CellIndicator ==
  last_op = "update_indicator" =>
    \A cell \in fluid_active : \A q \in QPoints :
      fluid_data[cell][q].indicator
        <=> \A v \in VerticesPerCell : InsideSolid(FluidVertex(cell, v))

C7_Witness ==
  /\ last_op = "update_indicator"
  /\ \E cell \in fluid_active : \A q \in QPoints : fluid_data[cell][q].indicator
  /\ \E cell \in fluid_active :
       /\ \E v \in VerticesPerCell : InsideSolid(FluidVertex(cell, v))
       /\ \E v \in VerticesPerCell : ~InsideSolid(FluidVertex(cell, v))
       /\ \A q \in QPoints : ~fluid_data[cell][q].indicator

\* C8: find_solid_bc stores a traction only on boundary faces without a
\* Dirichlet condition; the traction of every other face stays as it was.
C8_TractionOnlyOnFreeFaces ==
  [][ \A c \in SolidCellIds : \A f \in FacesPerCell :
        ~(AtBoundary(c, f) /\ ~HasDirichlet(c, f)) =>
           fsi_traction'[c][f] = fsi_traction[c][f] ]_vars

\* ------------------------------------------------------------------------
\* Specifications
\* ------------------------------------------------------------------------
\* the solid solver's time stepping
Init == NRInit /\ PHFixed /\ FSIFixed /\ MVFixed /\ WSFixed
Next == NRNext
Spec == Init /\ [][Next]_vars

\* one quadrature point state, from construction on
InitPH == PHInit /\ NRFixed /\ FSIFixed /\ MVFixed /\ WSFixed
SpecPH == InitPH /\ [][PHNext]_vars

\* the coupled time loop
InitFSI == FSIInit /\ NRFixed /\ PHFixed /\ MVFixed /\ WSFixed
SpecFSI == InitFSI /\ [][FSINext]_vars

\* run is sequential code: the statement control stands at is executed
SpecFSIFair == SpecFSI /\ WF_vars(RunStep)

\* move_solid_mesh on its own
InitMove == MVInit /\ NRFixed /\ PHFixed /\ WSFixed
            /\ fsi_params = [end_time |-> MaxEnd, time_step |-> 1, refinement_interval |-> 1]
            /\ fsi_pc = "start" /\ last_op = "none" /\ first_step = TRUE
            /\ fsi_time = [current |-> 0, timestep |-> 0]
            /\ solid_steps = 0 /\ fsi_traction = NoTraction
            /\ fluid = ZeroFluid /\ fluid_steps = 0
            /\ fluid_active = RefineGlobal(0) /\ fluid_data = NoData
SpecMove == InitMove /\ [][MVNext]_vars

\* one solver's quadrature point states under WorkStream
InitQPH == WSInit /\ NRFixed /\ PHFixed /\ FSIFixed /\ MVFixed
SpecQPH == InitQPH /\ [][WSNext]_vars
====
